---- MODULE Spec2Model ----
(***************************************************************************)
(* nosedjango: the per-test lifecycle of the NoseDjango plugin             *)
(* (begin, beforeTest, the test body, afterTest, finalize) and the         *)
(* CherryPyLiveServerPlugin hooks (startTest, finalize), driven by the     *)
(* runner in the order nose drives them: beforeTest, then startTest and    *)
(* the body when beforeTest did not raise, then afterTest in every case.   *)
(* DjangoSphinxPlugin (configure, startTest, afterTest, finalize) and the   *)
(* searchd processes it starts are a machine of their own, SpecSphinx.     *)
(* SeleniumPlugin (configure, handleError, handleFailure, afterTest) and    *)
(* the screenshot directory are another, SpecSelenium.                     *)
(***************************************************************************)
EXTENDS Naturals, Sequences, FiniteSets, TLC

\* ------------------------------------------------------------------ bounds
MaxTests == 2
MaxBodyOps == 2
MaxDepth == 1
MaxLiveTests == 4
MaxFinalizeCalls == 2
MaxSphinxTests == 2
MaxSeleniumTests == 2

\* ------------------------------------------------------------------ values
\* An attribute that hasattr()/getattr() does not find.
Absent == "absent"

\* The six transaction entry points that disable_transaction_support rebinds.
EntryPoints == {"commit", "rollback", "savepoint_commit", "savepoint_rollback",
                "enter_transaction_management", "leave_transaction_management"}

\* What a name of django.db.transaction is bound to: the function Django
\* defines, or _dummy.
Original == "original"
_dummy == "_dummy"

\* settings.ROOT_URLCONF as configured by the project, and a test's override.
ProjectUrls == "project.urls"
UrlOverrides == {"tests.urls"}

\* The fixtures lists a test may declare; fixture f holds the single row f.
FixtureLists == {<<"a">>, <<"a", "b">>, <<"b", "a">>}
\* Rows a test body may write.
BodyRows == {"x"}

TriState == {Absent, "True", "False"}

\* A test as the hooks see it: `method` is isinstance(test, nose.case.Test) and
\* isinstance(test.test, nose.case.MethodTestCase); the rest are attributes of
\* test.context (start_live_server: of test).
Tests ==
    {t \in [method : BOOLEAN,
            use_transaction : TriState,
            has_fixtures : BOOLEAN,
            fixtures : FixtureLists \cup {<< >>},
            urls : UrlOverrides \cup {Absent},
            start_live_server : BOOLEAN] :
        t.has_fixtures <=> (t.fixtures # << >>)}

\* The tests of a run of the NoseDjango plugin alone, and the tests of a run
\* that exercises the live server plugin (which reads start_live_server only).
DjangoTests == {t \in Tests : ~t.start_live_server}

LiveTests ==
    {t \in Tests : /\ t.method /\ t.use_transaction = Absent
                   /\ ~t.has_fixtures /\ t.urls = Absent}

NoTest ==
    [method |-> FALSE, use_transaction |-> Absent, has_fixtures |-> FALSE,
     fixtures |-> << >>, urls |-> Absent, start_live_server |-> FALSE]

\* The settings module when __import__ finds it, and settings.DATABASE_NAME as
\* the project configures it.
SettingsModule == "settings"
ProjectDb == "project_db"

\* The directories of the file system, and os.path.split(cwd)[0] of each: the
\* parent directory, and the root for the root.
Dirs == {"/", "/p", "/p/q", "/p/q/r", "/p/s"}

split_head ==
    [d \in Dirs |->
        CASE d = "/"      -> "/"
          [] d = "/p"     -> "/"
          [] d = "/p/q"   -> "/p"
          [] d = "/p/q/r" -> "/p/q"
          [] d = "/p/s"   -> "/p"]

\* get_settings_path on a POSIX system started in `cwd`, `listing` being the
\* directories whose os.listdir holds the settings file; Absent is None.
RECURSIVE get_settings_path(_, _)
get_settings_path(cwd, holding) ==
    IF cwd = "" THEN cwd
    ELSE IF cwd \in holding THEN cwd
    ELSE LET up == split_head[cwd]
         IN  IF up = "/" THEN Absent ELSE get_settings_path(up, holding)

\* A test as DjangoSphinxPlugin sees it: the two attributes startTest reads
\* from the test, and the one afterTest reads from test.context.
SphinxTests ==
    [build_sphinx_index : BOOLEAN,
     run_sphinx_searchd : BOOLEAN,
     context_run_sphinx_searchd : BOOLEAN]

NoSphinxTest ==
    [build_sphinx_index |-> FALSE, run_sphinx_searchd |-> FALSE,
     context_run_sphinx_searchd |-> FALSE]

\* A plain test method: what a run that varies begin's inputs executes.
PlainTests ==
    {t \in Tests : /\ t.method /\ t.use_transaction = Absent
                   /\ ~t.has_fixtures /\ t.urls = Absent
                   /\ ~t.start_live_server}

\* A test as SeleniumPlugin sees it: is_test is isinstance(test,
\* nose.case.Test); selenium, selenium_take_ss and selenium_driver_attr are
\* attributes of test.context; attrs are the attributes test.test has among
\* those a driver may be kept in.
SeleniumTests ==
    [is_test : BOOLEAN,
     selenium : BOOLEAN,
     selenium_take_ss : BOOLEAN,
     selenium_driver_attr : {Absent, "browser"},
     attrs : SUBSET {"driver", "browser"}]

NoSeleniumTest ==
    [is_test |-> FALSE, selenium |-> FALSE, selenium_take_ss |-> FALSE,
     selenium_driver_attr |-> Absent, attrs |-> {}]

VARIABLES
    pc,                     \* where the runner is
    ntests,                 \* tests begun so far
    cur,                    \* the test being run
    nops,                   \* body operations of the current test so far
    raised,                 \* the exception the last hook raised, or "none"
    outcome,                \* how the current test's body ended
    finalized,              \* the plugins whose finalize has run
    \* settings (django.conf.settings)
    DISABLE_TRANSACTION_MANAGEMENT,
    DATABASE_SUPPORTS_TRANSACTIONS,
    ROOT_URLCONF,
    \* django.core.urlresolvers: number of clear_url_caches() calls made
    url_cache_clears,
    \* django.db.transaction and the connection
    bound,                  \* entry point -> Original | _dummy
    state,                  \* the stack of managed flags
    db,                     \* rows the connection sees
    committed,              \* rows that are durable
    connection_closes,      \* connection.close() calls of the current test
    \* NoseDjango instance attributes
    settings_path,
    _managing_transactions,
    orig,                   \* orig_commit ... orig_leave
    old_urlconf,
    \* CherryPyLiveServerPlugin
    server_started,
    start_server_calls,
    listening,
    \* observations of the current test
    log,                    \* the calls the hooks of the current test made
    pre_bound,              \* bound, when beforeTest began
    pre_committed,          \* committed, when beforeTest began
    pre_urlconf,            \* ROOT_URLCONF, when beforeTest began
    pre_old_urlconf,        \* old_urlconf, when beforeTest began
    pre_depth,              \* Len(state), when the beforeTest of a test run
                            \* transactionally began; 0 for any other test
    written,                \* rows the body of the current test wrote
    first_requester,        \* first test whose startTest saw start_live_server
    started_for,            \* the test start_server was invoked for
    stop_calls,             \* httpd.stop() calls made
    live_finalizes,         \* CherryPyLiveServerPlugin.finalize calls made
    \* the environment and the options begin reads
    importable,             \* __import__(settings_module) succeeds
    getcwd,                 \* os.getcwd()
    listing,                \* the directories that hold the settings file
    _use_sqlite,            \* --django-sqlite
    \* what begin and finalize set up and tear down
    DATABASE_ENGINE,
    DATABASE_NAME,
    old_db,
    test_environment,       \* setup_test_environment() is in effect
    test_db,                \* "none", "created" or "destroyed"
    name_at_create,         \* settings.DATABASE_NAME when create_test_db ran
    destroyed_name,         \* the name passed to destroy_test_db
    \* DjangoSphinxPlugin and the processes it starts
    sx_pc,                  \* where the runner is for this plugin
    sx_ntests,
    sx_test,                \* the test being run
    sx_raised,              \* the exception the last hook raised, or "none"
    sx_log,                 \* what startTest of the current test did, in order
    sphinx_config_tpl,
    tmp_sphinx_dir,
    tmp_dir_on_disk,        \* the temporary directory exists
    _searchd,               \* the process handle: an index of procs, or 0
    procs,                  \* the searchd processes launched: their status
    \* SeleniumPlugin and the screenshot directory
    se_pc,                  \* where the runner is for this plugin
    se_ntests,
    se_test,                \* the test being run
    se_outcome,             \* "pass", "error" or "failure"
    se_hook,                \* the handler the runner called for this test
    se_raised,              \* the exception the last hook raised, or "none"
    ss_dir,
    ss_dir_exists,          \* os.path.exists(self.ss_dir)
    ss_files,               \* the screenshots saved: the ids of their tests
    makedirs_calls,
    printed,                \* messages printed to the console
    screenshot_calls,       \* calls of _take_screenshot
    se_before               \* the last five, when the current test began

vars == <<pc, ntests, cur, nops, raised, outcome, finalized,
          DISABLE_TRANSACTION_MANAGEMENT, DATABASE_SUPPORTS_TRANSACTIONS,
          ROOT_URLCONF, url_cache_clears, bound, state, db, committed,
          connection_closes, settings_path, _managing_transactions, orig,
          old_urlconf, server_started, start_server_calls, listening, log,
          pre_bound, pre_committed, pre_urlconf, pre_old_urlconf, pre_depth, written,
          first_requester, started_for, stop_calls, live_finalizes,
          importable, getcwd, listing, _use_sqlite, DATABASE_ENGINE,
          DATABASE_NAME, old_db, test_environment, test_db, name_at_create,
          destroyed_name, sx_pc, sx_ntests, sx_test, sx_raised, sx_log,
          sphinx_config_tpl, tmp_sphinx_dir, tmp_dir_on_disk, _searchd, procs,
          se_pc, se_ntests, se_test, se_outcome, se_hook, se_raised, ss_dir,
          ss_dir_exists, ss_files, makedirs_calls, printed, screenshot_calls,
          se_before>>

runner_vars == <<pc, ntests, cur, nops, raised, outcome, finalized>>
settings_vars == <<DISABLE_TRANSACTION_MANAGEMENT, DATABASE_SUPPORTS_TRANSACTIONS,
                   importable, getcwd, listing, _use_sqlite>>
live_vars == <<server_started, start_server_calls, listening, first_requester,
               started_for, stop_calls, live_finalizes>>
begin_vars == <<DATABASE_ENGINE, DATABASE_NAME, old_db, test_environment,
                test_db, name_at_create, destroyed_name>>
sphinx_vars == <<sx_pc, sx_ntests, sx_test, sx_raised, sx_log, sphinx_config_tpl,
                 tmp_sphinx_dir, tmp_dir_on_disk, _searchd, procs>>
selenium_vars == <<se_pc, se_ntests, se_test, se_outcome, se_hook, se_raised,
                   ss_dir, ss_dir_exists, ss_files, makedirs_calls, printed,
                   screenshot_calls, se_before>>
lifecycle_vars == <<pc, ntests, cur, nops, raised, outcome, finalized,
                    DISABLE_TRANSACTION_MANAGEMENT,
                    DATABASE_SUPPORTS_TRANSACTIONS, importable, getcwd, listing,
                    _use_sqlite, ROOT_URLCONF, url_cache_clears, bound, state,
                    db, committed, connection_closes, settings_path,
                    _managing_transactions, orig, old_urlconf, live_vars, log,
                    pre_bound, pre_committed, pre_urlconf, pre_old_urlconf, pre_depth,
                    written, begin_vars>>
\* What _take_screenshot can change, as one record.
Screen ==
    [ss_dir_exists |-> ss_dir_exists, ss_files |-> ss_files,
     makedirs_calls |-> makedirs_calls, printed |-> printed,
     screenshot_calls |-> screenshot_calls]

obs_vars == <<log, pre_bound, pre_committed, pre_urlconf, pre_old_urlconf, pre_depth,
              written>>

\* ------------------------------------------------- the calls a hook makes
\* One call a hook or a body made: the name called, its positional arguments,
\* its keyword arguments, and whether the name was bound to Django's function
\* (TRUE) or to _dummy (FALSE) when it was called.
Event(op, args, kwargs, real) ==
    [op |-> op, args |-> args, kwargs |-> kwargs, real |-> real]

\* The part of the program state a hook works on, threaded through its
\* statements; exc is the exception raised so far ("none": still running).
World ==
    [bound |-> bound, state |-> state, db |-> db, committed |-> committed,
     connection_closes |-> connection_closes, orig |-> orig,
     old_urlconf |-> old_urlconf, ROOT_URLCONF |-> ROOT_URLCONF,
     url_cache_clears |-> url_cache_clears, log |-> log, exc |-> "none"]

Logged(w, e) == [w EXCEPT !.log = Append(@, e)]

\* transaction.is_managed(): the top of the stack, else
\* settings.TRANSACTIONS_MANAGED (False).
is_managed(st) == IF Len(st) > 0 THEN st[Len(st)] ELSE FALSE

Pop(st) == SubSeq(st, 1, Len(st) - 1)

\* Django's own function behind each entry point.
real_commit(w) == [w EXCEPT !.committed = w.db]

real_rollback(w) == [w EXCEPT !.db = w.committed]

real_enter(w) == [w EXCEPT !.state = Append(@, is_managed(w.state))]

\* leave_transaction_management pops; outside transaction management, or with
\* uncommitted changes pending (which it rolls back), it raises.
real_leave(w) ==
    IF Len(w.state) = 0
    THEN [w EXCEPT !.exc = "TransactionManagementError"]
    ELSE IF w.db # w.committed
    THEN [(IF w.bound["rollback"] = Original THEN real_rollback(w) ELSE w)
            EXCEPT !.state = Pop(w.state), !.exc = "TransactionManagementError"]
    ELSE [w EXCEPT !.state = Pop(w.state)]

RealEntry(w, name) ==
    CASE name = "commit" -> real_commit(w)
      [] name = "rollback" -> real_rollback(w)
      [] name = "enter_transaction_management" -> real_enter(w)
      [] name = "leave_transaction_management" -> real_leave(w)
      [] OTHER -> w

\* transaction.<name>(): whatever the module attribute is bound to right now.
\* _dummy returns without doing anything.
Call(w, name) ==
    IF w.exc # "none" THEN w
    ELSE LET l == Logged(w, Event(name, << >>, << >>, w.bound[name] = Original))
         IN  IF w.bound[name] = _dummy THEN l ELSE RealEntry(l, name)

\* transaction.managed(flag): never rebound; sets the top of the stack.
managed(w, flag) ==
    IF w.exc # "none" THEN w
    ELSE LET l == Logged(w, Event("managed", <<IF flag THEN "True" ELSE "False">>, << >>, TRUE))
         IN  IF Len(w.state) = 0
             THEN [l EXCEPT !.exc = "TransactionManagementError"]
             ELSE [l EXCEPT !.state = [w.state EXCEPT ![Len(w.state)] = flag]]

\* connection.close()
close(w) ==
    IF w.exc # "none" THEN w
    ELSE [Logged(w, Event("close", << >>, << >>, TRUE))
            EXCEPT !.connection_closes = @ + 1, !.db = w.committed]

\* The rows of a list of fixtures.
RECURSIVE RowsOf(_)
RowsOf(fs) == IF fs = << >> THEN {} ELSE {Head(fs)} \cup RowsOf(Tail(fs))

\* call_command('flush', verbosity=0, interactive=False): empties the database.
call_command_flush(w) ==
    IF w.exc # "none" THEN w
    ELSE [Logged(w, Event("flush", << >>, <<"verbosity=0", "interactive=False">>, TRUE))
            EXCEPT !.db = {}, !.committed = {}]

\* call_command('loaddata', *fixtures, verbosity=0): inserts the fixtures' rows
\* in the order given, then calls transaction.commit().
call_command_loaddata(w, fixtures) ==
    IF w.exc # "none" THEN w
    ELSE Call([Logged(w, Event("loaddata", fixtures, <<"verbosity=0">>, TRUE))
                 EXCEPT !.db = @ \cup RowsOf(fixtures)],
              "commit")

\* ------------------------------------------------------------ NoseDjango
\* disable_transaction_support with transaction.commit left as it is.
disable_transaction_support_but_commit(w) ==
    IF w.exc # "none" THEN w
    ELSE [Logged(w, Event("disable_transaction_support", << >>, << >>, TRUE))
            EXCEPT !.orig = w.bound,
                   !.bound = [n \in EntryPoints |->
                                 IF n = "commit" THEN w.bound[n] ELSE _dummy]]

\* disable_transaction_support: save the six bindings, then bind all six to
\* _dummy.
disable_transaction_support(w) ==
    IF w.exc # "none" THEN w
    ELSE [Logged(w, Event("disable_transaction_support", << >>, << >>, TRUE))
            EXCEPT !.orig = w.bound,
                   !.bound = [n \in EntryPoints |-> _dummy]]

\* restore_transaction_support with the last assignment missing:
\* leave_transaction_management keeps its binding.
restore_transaction_support_but_leave(w) ==
    IF w.exc # "none" THEN w
    ELSE IF \E n \in EntryPoints : w.orig[n] = Absent
    THEN [w EXCEPT !.exc = "AttributeError"]
    ELSE [Logged(w, Event("restore_transaction_support", << >>, << >>, TRUE))
            EXCEPT !.bound = [w.orig EXCEPT !["leave_transaction_management"] =
                                  w.bound["leave_transaction_management"]]]

\* restore_transaction_support: bind the six names to the saved values; reading
\* a self.orig_* that was never assigned raises AttributeError.
restore_transaction_support(w) ==
    IF w.exc # "none" THEN w
    ELSE IF \E n \in EntryPoints : w.orig[n] = Absent
    THEN [w EXCEPT !.exc = "AttributeError"]
    ELSE [Logged(w, Event("restore_transaction_support", << >>, << >>, TRUE))
            EXCEPT !.bound = w.orig]

\* _supports_transactions(test, settings), on the three attributes it reads.
_supports_transactions(use_transaction, disable, supports) ==
    LET a == IF use_transaction # Absent THEN use_transaction = "True" ELSE TRUE
        b == IF disable # Absent THEN ~(disable = "True") ELSE a
    IN  IF supports # Absent /\ supports # "True" THEN FALSE ELSE b

\* The override read from the test's context instead of from the plugin.
context_urls(test) == test.urls

\* self.urls in beforeTest: neither NoseDjango nor nose's Plugin defines an
\* attribute urls, so the lookup raises AttributeError.
self_urls(test) == "AttributeError"

\* The names finalize can call: its own imports and the module's globals.
\* clear_url_caches is imported inside beforeTest only.
FinalizeNames ==
    {"teardown_test_environment", "connection", "settings", "custom_after"}

\* The transaction part of beforeTest replacing the entry points first.
before_transactions_disable_first(w, transaction_support) ==
    IF transaction_support
    THEN managed(Call(disable_transaction_support(w),
                      "enter_transaction_management"), TRUE)
    ELSE call_command_flush(w)

\* The transaction part of beforeTest without the flush of the else branch.
before_transactions_no_flush(w, transaction_support) ==
    IF transaction_support
    THEN disable_transaction_support(
             managed(Call(w, "enter_transaction_management"), TRUE))
    ELSE w

\* The transaction part of beforeTest.
before_transactions(w, transaction_support) ==
    IF transaction_support
    THEN disable_transaction_support(
             managed(Call(w, "enter_transaction_management"), TRUE))
    ELSE call_command_flush(w)

\* The fixtures part of beforeTest passing the first fixture only.
before_fixtures_first_only(w, test) ==
    IF test.method /\ test.has_fixtures
    THEN call_command_loaddata(w, <<Head(test.fixtures)>>)
    ELSE w

\* The fixtures part of beforeTest.
before_fixtures(w, test) ==
    IF test.method /\ test.has_fixtures
    THEN call_command_loaddata(w, test.fixtures)
    ELSE w

\* The urls part of beforeTest.
before_urls(w, test) ==
    IF w.exc # "none" THEN w
    ELSE IF test.method /\ test.urls # Absent
    THEN LET saved == [w EXCEPT !.old_urlconf = w.ROOT_URLCONF]
         IN  IF self_urls(test) = "AttributeError"
             THEN [saved EXCEPT !.exc = "AttributeError"]
             ELSE [Logged(saved, Event("clear_url_caches", << >>, << >>, TRUE))
                     EXCEPT !.ROOT_URLCONF = self_urls(test),
                            !.url_cache_clears = @ + 1]
    ELSE w

\* beforeTest with the fixtures loaded before the transaction part.
before_test_fixtures_first(w, test, transaction_support) ==
    before_urls(before_transactions(before_fixtures(w, test), transaction_support),
                test)

\* beforeTest, from the decision on (the settings_path check is in the action).
before_test(w, test, transaction_support) ==
    before_urls(before_fixtures(before_transactions(w, transaction_support), test),
                test)

\* afterTest calling rollback before it restores the bindings.
after_test_rollback_first(w) ==
    LET r == restore_transaction_support(Call(w, "rollback"))
        l == IF r.exc = "none" /\ is_managed(r.state)
             THEN Call(r, "leave_transaction_management")
             ELSE r
    IN  close(l)

\* afterTest when self._managing_transactions is true.
after_test(w) ==
    LET r == Call(restore_transaction_support(w), "rollback")
        l == IF r.exc = "none" /\ is_managed(r.state)
             THEN Call(r, "leave_transaction_management")
             ELSE r
    IN  close(l)

\* The variables a hook's world is written back to.
Store(w) ==
    /\ bound' = w.bound
    /\ state' = w.state
    /\ db' = w.db
    /\ committed' = w.committed
    /\ connection_closes' = w.connection_closes
    /\ orig' = w.orig
    /\ old_urlconf' = w.old_urlconf
    /\ ROOT_URLCONF' = w.ROOT_URLCONF
    /\ url_cache_clears' = w.url_cache_clears
    /\ log' = w.log
    /\ raised' = w.exc

\* ------------------------------------------------------------------ Init
\* The plugins after construction and configure, before begin.
InitPlugins ==
    /\ pc = "configured"
    /\ ntests = 0
    /\ cur = NoTest
    /\ nops = 0
    /\ raised = "none"
    /\ outcome = "none"
    /\ finalized = {}
    /\ ROOT_URLCONF = ProjectUrls
    /\ url_cache_clears = 0
    /\ bound = [n \in EntryPoints |-> Original]
    /\ state = << >>
    /\ db = {}
    /\ committed = {}
    /\ connection_closes = 0
    /\ settings_path = Absent
    /\ _managing_transactions = Absent
    /\ orig = [n \in EntryPoints |-> Absent]
    /\ old_urlconf = Absent
    /\ server_started = FALSE
    /\ start_server_calls = 0
    /\ listening = 0
    /\ log = << >>
    /\ pre_bound = [n \in EntryPoints |-> Original]
    /\ pre_committed = {}
    /\ pre_urlconf = ProjectUrls
    /\ pre_old_urlconf = Absent
    /\ pre_depth = 0
    /\ written = {}
    /\ first_requester = 0
    /\ started_for = 0
    /\ stop_calls = 0
    /\ live_finalizes = 0
    /\ old_db = Absent
    /\ test_environment = FALSE
    /\ test_db = "none"
    /\ name_at_create = Absent
    /\ destroyed_name = Absent
    /\ sx_ntests = 0
    /\ sx_test = NoSphinxTest
    /\ sx_raised = "none"
    /\ sx_log = << >>
    /\ _searchd = 0
    /\ procs = << >>
    /\ se_pc = "unconfigured"
    /\ se_ntests = 0
    /\ se_test = NoSeleniumTest
    /\ se_outcome = "none"
    /\ se_hook = "none"
    /\ se_raised = "none"
    /\ ss_dir = Absent
    /\ ss_files = {}
    /\ makedirs_calls = 0
    /\ printed = 0
    /\ screenshot_calls = 0
    /\ se_before = [ss_dir_exists |-> FALSE, ss_files |-> {},
                    makedirs_calls |-> 0, printed |-> 0,
                    screenshot_calls |-> 0]

\* DjangoSphinxPlugin has not been configured.
SphinxUnconfigured ==
    /\ sx_pc = "unconfigured"
    /\ sphinx_config_tpl = Absent
    /\ tmp_sphinx_dir = Absent
    /\ tmp_dir_on_disk = FALSE

\* A project whose settings differ in the two transaction settings; its
\* settings module is importable or it is nowhere to be found.
Init ==
    /\ InitPlugins
    /\ SphinxUnconfigured
    /\ DISABLE_TRANSACTION_MANAGEMENT \in TriState
    /\ DATABASE_SUPPORTS_TRANSACTIONS \in TriState
    /\ importable \in BOOLEAN
    /\ getcwd = "/p/q"
    /\ listing = {}
    /\ _use_sqlite = FALSE
    /\ DATABASE_ENGINE = "mysql"
    /\ DATABASE_NAME = ProjectDb
    /\ ss_dir_exists = FALSE

\* A project found from any working directory, with the settings file in any
\* set of directories, with or without --django-sqlite.
InitBegin ==
    /\ InitPlugins
    /\ SphinxUnconfigured
    /\ DISABLE_TRANSACTION_MANAGEMENT = Absent
    /\ DATABASE_SUPPORTS_TRANSACTIONS = Absent
    /\ importable \in BOOLEAN
    /\ getcwd \in Dirs
    /\ listing \in SUBSET Dirs
    /\ _use_sqlite \in BOOLEAN
    /\ DATABASE_ENGINE = "mysql"
    /\ DATABASE_NAME = ProjectDb
    /\ ss_dir_exists = FALSE

\* --------------------------------------------------------------- actions
\* begin capturing the database name before the --django-sqlite override.
begin_database_capture_first(engine, name, use_sqlite) ==
    LET overridden == IF use_sqlite THEN [engine |-> "sqlite3", name |-> ""]
                      ELSE [engine |-> engine, name |-> name]
    IN  [DATABASE_ENGINE |-> overridden.engine,
         DATABASE_NAME   |-> overridden.name,
         old_db          |-> name,
         name_at_create  |-> overridden.name]

\* begin, from the --django-sqlite override to create_test_db: the database
\* settings it leaves, the name it captures and the name create_test_db sees.
begin_database(engine, name, use_sqlite) ==
    LET overridden == IF use_sqlite THEN [engine |-> "sqlite3", name |-> ""]
                      ELSE [engine |-> engine, name |-> name]
    IN  [DATABASE_ENGINE |-> overridden.engine,
         DATABASE_NAME   |-> overridden.name,
         old_db          |-> overridden.name,
         name_at_create  |-> overridden.name]

\* begin without the short circuit: it goes on to set up the test environment
\* and the test database when no settings file is found.
begin_no_short_circuit ==
    /\ pc = "configured"
    /\ LET found == IF importable THEN SettingsModule
                    ELSE get_settings_path(getcwd, listing)
           d == begin_database(DATABASE_ENGINE, DATABASE_NAME, _use_sqlite)
       IN  /\ settings_path' = found
           /\ pc' = "idle"
           /\ raised' = "none"
           /\ DATABASE_ENGINE' = d.DATABASE_ENGINE
           /\ DATABASE_NAME' = d.DATABASE_NAME
           /\ old_db' = d.old_db
           /\ test_environment' = TRUE
           /\ test_db' = "created"
           /\ name_at_create' = d.name_at_create
           /\ UNCHANGED destroyed_name
    /\ UNCHANGED <<ntests, cur, nops, outcome, finalized, settings_vars,
                   sphinx_vars, selenium_vars, ROOT_URLCONF, url_cache_clears, bound, state,
                   db, committed, connection_closes, _managing_transactions,
                   orig, old_urlconf, live_vars, obs_vars>>

\* NoseDjango.begin: settings_path is the settings module when it imports, else
\* the directory get_settings_path finds; when none is found begin raises
\* RuntimeError and the run ends.
begin ==
    /\ pc = "configured"
    /\ LET found == IF importable THEN SettingsModule
                    ELSE get_settings_path(getcwd, listing)
       IN  /\ settings_path' = found
           /\ IF found = Absent
              THEN /\ pc' = "aborted"
                   /\ raised' = "RuntimeError"
                   /\ UNCHANGED begin_vars
              ELSE LET d == begin_database(DATABASE_ENGINE, DATABASE_NAME,
                                           _use_sqlite)
                   IN  /\ pc' = "idle"
                       /\ raised' = "none"
                       /\ DATABASE_ENGINE' = d.DATABASE_ENGINE
                       /\ DATABASE_NAME' = d.DATABASE_NAME
                       /\ old_db' = d.old_db
                       /\ test_environment' = TRUE
                       /\ test_db' = "created"
                       /\ name_at_create' = d.name_at_create
                       /\ UNCHANGED destroyed_name
    /\ UNCHANGED <<ntests, cur, nops, outcome, finalized, settings_vars, sphinx_vars, selenium_vars,
                  
                   ROOT_URLCONF, url_cache_clears, bound, state, db, committed,
                   connection_closes, _managing_transactions, orig,
                   old_urlconf, live_vars, obs_vars>>

\* NoseDjango.beforeTest(test). When it raises, the runner skips the body and
\* goes on to afterTest.
beforeTest(test) ==
    /\ pc = "idle"
    /\ ntests' = ntests + 1
    /\ cur' = test
    /\ nops' = 0
    /\ outcome' = "none"
    /\ pre_bound' = bound
    /\ pre_committed' = committed
    /\ pre_urlconf' = ROOT_URLCONF
    /\ pre_old_urlconf' = old_urlconf
    /\ pre_depth' =
           IF settings_path # Absent
              /\ _supports_transactions(test.use_transaction,
                                        DISABLE_TRANSACTION_MANAGEMENT,
                                        DATABASE_SUPPORTS_TRANSACTIONS)
           THEN Len(state) ELSE 0
    /\ written' = {}
    /\ IF settings_path = Absent
       THEN /\ Store([World EXCEPT !.log = << >>, !.connection_closes = 0])
            /\ UNCHANGED _managing_transactions
            /\ pc' = "start"
       ELSE LET transaction_support ==
                    _supports_transactions(test.use_transaction,
                                           DISABLE_TRANSACTION_MANAGEMENT,
                                           DATABASE_SUPPORTS_TRANSACTIONS)
                w == before_test([World EXCEPT !.log = << >>,
                                               !.connection_closes = 0],
                                 test, transaction_support)
            IN  /\ _managing_transactions' =
                       (IF transaction_support THEN "True" ELSE "False")
                /\ Store(w)
                /\ pc' = IF w.exc = "none" THEN "start" ELSE "after"
    /\ UNCHANGED <<finalized, settings_vars, sphinx_vars, selenium_vars,
                   begin_vars, settings_path, live_vars>>

\* start_server: one more server listens.
start_server ==
    /\ start_server_calls' = start_server_calls + 1
    /\ listening' = listening + 1
    /\ started_for' = ntests

\* startTest without the assignment server_started = True.
startTest_flag_not_set ==
    /\ pc = "start"
    /\ pc' = "body"
    /\ first_requester' =
           IF cur.start_live_server /\ first_requester = 0
           THEN ntests ELSE first_requester
    /\ IF ~server_started /\ cur.start_live_server
       THEN start_server /\ UNCHANGED server_started
       ELSE UNCHANGED <<start_server_calls, listening, started_for,
                        server_started>>
    /\ UNCHANGED <<ntests, cur, nops, raised, outcome, finalized, settings_vars, sphinx_vars, selenium_vars,
                   begin_vars,
                   ROOT_URLCONF, url_cache_clears, bound, state, db, committed,
                   connection_closes, settings_path, _managing_transactions,
                   orig, old_urlconf, stop_calls, live_finalizes, obs_vars>>

\* CherryPyLiveServerPlugin.startTest(test); the body starts after it.
startTest ==
    /\ pc = "start"
    /\ pc' = "body"
    /\ first_requester' =
           IF cur.start_live_server /\ first_requester = 0
           THEN ntests ELSE first_requester
    /\ IF ~server_started /\ cur.start_live_server
       THEN start_server /\ server_started' = TRUE
       ELSE UNCHANGED <<start_server_calls, listening, started_for,
                        server_started>>
    /\ UNCHANGED <<ntests, cur, nops, raised, outcome, finalized, settings_vars, sphinx_vars, selenium_vars,
                   begin_vars,
                   ROOT_URLCONF, url_cache_clears, bound, state, db, committed,
                   connection_closes, settings_path, _managing_transactions,
                   orig, old_urlconf, stop_calls, live_finalizes, obs_vars>>

\* What a body operation leaves alone.
BodyFrame ==
    /\ nops < MaxBodyOps
    /\ nops' = nops + 1
    /\ UNCHANGED <<pc, ntests, cur, raised, outcome, finalized, settings_vars, sphinx_vars, selenium_vars,
                   begin_vars,
                   ROOT_URLCONF, url_cache_clears, connection_closes,
                   settings_path, _managing_transactions, orig, old_urlconf,
                   live_vars, log, pre_bound, pre_committed, pre_urlconf,
                   pre_old_urlconf,
                   pre_depth>>

\* The test body writes a row through the connection.
bodyWrite(row) ==
    /\ pc = "body"
    /\ BodyFrame
    /\ db' = db \cup {row}
    /\ written' = written \cup {row}
    /\ UNCHANGED <<bound, state, committed>>

\* The test body (or application code it runs) calls transaction.<name>().
bodyCall(name) ==
    /\ pc = "body"
    /\ BodyFrame
    /\ name = "enter_transaction_management" /\ bound[name] = Original
           => Len(state) < MaxDepth
    /\ LET w == Call(World, name)
       IN  /\ state' = w.state
           /\ committed' = w.committed
           /\ IF name = "savepoint_rollback" /\ bound[name] = Original
              THEN \E kept \in SUBSET db : committed \subseteq kept /\ db' = kept
              ELSE db' = w.db
    /\ UNCHANGED <<bound, written>>

\* The test body calls transaction.managed(flag).
bodyManaged(flag) ==
    /\ pc = "body"
    /\ BodyFrame
    /\ state' = managed(World, flag).state
    /\ UNCHANGED <<bound, db, committed, written>>

\* The body ends: it passes, fails or errors.
bodyEnd(result) ==
    /\ pc = "body"
    /\ pc' = "after"
    /\ outcome' = result
    /\ UNCHANGED <<ntests, cur, nops, raised, finalized, settings_vars, sphinx_vars, selenium_vars,
                   begin_vars,
                   ROOT_URLCONF, url_cache_clears, bound, state, db, committed,
                   connection_closes, settings_path, _managing_transactions,
                   orig, old_urlconf, live_vars, obs_vars>>

\* afterTest doing the rollback cleanup whatever beforeTest decided.
afterTest_always_cleans ==
    /\ pc = "after"
    /\ pc' = "cleaned"
    /\ IF _managing_transactions = Absent
       THEN Store([World EXCEPT !.exc = "AttributeError"])
       ELSE Store(after_test(World))
    /\ UNCHANGED <<ntests, cur, nops, outcome, finalized, settings_vars,
                   sphinx_vars, selenium_vars, begin_vars, settings_path,
                   _managing_transactions, live_vars, pre_bound, pre_committed,
                   pre_urlconf, pre_old_urlconf, pre_depth, written>>

\* NoseDjango.afterTest(test).
afterTest ==
    /\ pc = "after"
    /\ pc' = "cleaned"
    /\ IF _managing_transactions = Absent
       THEN Store([World EXCEPT !.exc = "AttributeError"])
       ELSE IF _managing_transactions = "True"
       THEN Store(after_test(World))
       ELSE Store(World)
    /\ UNCHANGED <<ntests, cur, nops, outcome, finalized, settings_vars, sphinx_vars, selenium_vars,
                   begin_vars,
                   settings_path, _managing_transactions, live_vars,
                   pre_bound, pre_committed, pre_urlconf, pre_old_urlconf, pre_depth,
                   written>>

\* The runner is done with the test and turns to the next one (or to the end
\* of the run): what was observed of the finished test is dropped.
nextTest ==
    /\ pc = "cleaned"
    /\ pc' = "idle"
    /\ cur' = NoTest
    /\ nops' = 0
    /\ raised' = "none"
    /\ outcome' = "none"
    /\ log' = << >>
    /\ connection_closes' = 0
    /\ pre_bound' = bound
    /\ pre_committed' = committed
    /\ pre_urlconf' = ROOT_URLCONF
    /\ pre_old_urlconf' = old_urlconf
    /\ pre_depth' = 0
    /\ written' = {}
    /\ UNCHANGED <<ntests, finalized, settings_vars, sphinx_vars, selenium_vars,
                   begin_vars, ROOT_URLCONF,
                   url_cache_clears, bound, state, db, committed,
                   settings_path, _managing_transactions, orig, old_urlconf,
                   live_vars>>

\* NoseDjango.finalize.
finalize ==
    /\ pc \in {"idle", "finalizing"}
    /\ "django" \notin finalized
    /\ pc' = "finalizing"
    /\ finalized' = finalized \cup {"django"}
    /\ IF settings_path = Absent
       THEN UNCHANGED begin_vars
       ELSE /\ destroyed_name' = old_db
            /\ test_db' = "destroyed"
            /\ test_environment' = FALSE
            /\ UNCHANGED <<DATABASE_ENGINE, DATABASE_NAME, old_db,
                           name_at_create>>
    /\ IF settings_path = Absent \/ old_urlconf = Absent
       THEN /\ raised' = "none"
            /\ UNCHANGED <<ROOT_URLCONF, url_cache_clears, log>>
       ELSE /\ ROOT_URLCONF' = old_urlconf
            /\ IF "clear_url_caches" \in FinalizeNames
               THEN /\ raised' = "none"
                    /\ url_cache_clears' = url_cache_clears + 1
                    /\ log' = Append(log, Event("clear_url_caches", << >>,
                                                << >>, TRUE))
               ELSE /\ raised' = "NameError"
                    /\ UNCHANGED <<url_cache_clears, log>>
    /\ UNCHANGED <<ntests, cur, nops, outcome, settings_vars, sphinx_vars, selenium_vars,
                   bound, state, db,
                   committed, connection_closes, settings_path,
                   _managing_transactions, orig, old_urlconf, live_vars,
                   pre_bound, pre_committed, pre_urlconf, pre_old_urlconf, pre_depth,
                   written>>

\* stop_test_server leaving server_started set.
stop_test_server_flag_kept ==
    IF server_started
    THEN /\ stop_calls' = stop_calls + 1
         /\ listening' = listening - 1
         /\ UNCHANGED server_started
    ELSE UNCHANGED <<stop_calls, listening, server_started>>

\* CherryPyLiveServerPlugin.stop_test_server.
stop_test_server ==
    IF server_started
    THEN /\ stop_calls' = stop_calls + 1
         /\ listening' = listening - 1
         /\ server_started' = FALSE
    ELSE UNCHANGED <<stop_calls, listening, server_started>>

\* CherryPyLiveServerPlugin.finalize; the runner calls it once, and nothing in
\* the plugin keeps a second call from being made.
live_finalize ==
    /\ pc \in {"idle", "finalizing"}
    /\ live_finalizes < MaxFinalizeCalls
    /\ live_finalizes' = live_finalizes + 1
    /\ pc' = "finalizing"
    /\ finalized' = finalized \cup {"cherrypyliveserver"}
    /\ stop_test_server
    /\ UNCHANGED <<ntests, cur, nops, raised, outcome, settings_vars, sphinx_vars, selenium_vars,
                   begin_vars,
                   ROOT_URLCONF, url_cache_clears, bound, state, db, committed,
                   connection_closes, settings_path, _managing_transactions,
                   orig, old_urlconf, start_server_calls, first_requester,
                   started_for, obs_vars>>

Next ==
    \/ begin
    \/ \E test \in DjangoTests : ntests < MaxTests /\ beforeTest(test)
    \/ startTest
    \/ \E row \in BodyRows : bodyWrite(row)
    \/ \E name \in EntryPoints : bodyCall(name)
    \/ \E flag \in BOOLEAN : bodyManaged(flag)
    \/ \E result \in {"pass", "fail", "error"} : bodyEnd(result)
    \/ afterTest
    \/ nextTest
    \/ finalize
    \/ live_finalize

Spec == Init /\ [][Next]_vars

\* A run whose tests differ in start_live_server only.
NextLive ==
    \/ begin
    \/ \E test \in LiveTests : ntests < MaxLiveTests /\ beforeTest(test)
    \/ startTest
    \/ \E row \in BodyRows : bodyWrite(row)
    \/ \E name \in EntryPoints : bodyCall(name)
    \/ \E flag \in BOOLEAN : bodyManaged(flag)
    \/ \E result \in {"pass", "fail", "error"} : bodyEnd(result)
    \/ afterTest
    \/ nextTest
    \/ finalize
    \/ live_finalize

SpecLive == Init /\ [][NextLive]_vars

\* A run of plain tests from any working directory.
NextBegin ==
    \/ begin
    \/ \E test \in PlainTests : ntests < MaxTests /\ beforeTest(test)
    \/ startTest
    \/ \E row \in BodyRows : bodyWrite(row)
    \/ \E name \in EntryPoints : bodyCall(name)
    \/ \E flag \in BOOLEAN : bodyManaged(flag)
    \/ \E result \in {"pass", "fail", "error"} : bodyEnd(result)
    \/ afterTest
    \/ nextTest
    \/ finalize
    \/ live_finalize

SpecBegin == InitBegin /\ [][NextBegin]_vars

\* ---------------------------------------------------- DjangoSphinxPlugin
\* DjangoSphinxPlugin.configure(options, config): the three attributes are set
\* only when --sphinx-config-tpl is given; mkdtemp creates the directory.
sphinx_configure(tpl) ==
    /\ sx_pc = "unconfigured"
    /\ sx_pc' = "idle"
    /\ IF tpl # Absent
       THEN /\ sphinx_config_tpl' = tpl
            /\ tmp_sphinx_dir' = "tmpdir"
            /\ tmp_dir_on_disk' = TRUE
       ELSE UNCHANGED <<sphinx_config_tpl, tmp_sphinx_dir, tmp_dir_on_disk>>
    /\ UNCHANGED <<sx_ntests, sx_test, sx_raised, sx_log, _searchd, procs,
                   lifecycle_vars,
                   selenium_vars>>

\* The body of DjangoSphinxPlugin.startTest for a mysql database, statement by
\* statement: what it did (log), the exception that ended it (exc), and
\* whether _start_searchd was reached. sphinx_config_path is bound only in
\* the branch that renders the configuration.
sphinx_start(test) ==
    LET rendering ==
            IF ~test.run_sphinx_searchd
            THEN [log |-> << >>, exc |-> "none", path |-> Absent]
            ELSE IF sphinx_config_tpl = Absent
            THEN [log |-> << >>, exc |-> "AttributeError", path |-> Absent]
            ELSE IF ~tmp_dir_on_disk
            THEN [log |-> << >>, exc |-> "IOError", path |-> "sphinx.conf"]
            ELSE [log |-> <<"render">>, exc |-> "none", path |-> "sphinx.conf"]
        indexing ==
            IF rendering.exc # "none" \/ ~test.build_sphinx_index
            THEN rendering
            ELSE IF rendering.path = Absent
            THEN [rendering EXCEPT !.exc = "UnboundLocalError"]
            ELSE [rendering EXCEPT !.log = Append(@, "indexer")]
    IN  IF indexing.exc # "none" \/ ~test.run_sphinx_searchd
        THEN [log |-> indexing.log, exc |-> indexing.exc, launch |-> FALSE]
        ELSE [log |-> Append(indexing.log, "searchd"), exc |-> "none",
              launch |-> TRUE]

\* DjangoSphinxPlugin.startTest(test). A launched searchd runs, or has already
\* exited when _start_searchd polls it. When startTest raises the runner
\* skips the body and goes on to afterTest.
sphinx_startTest(test) ==
    /\ sx_pc = "idle"
    /\ sx_ntests' = sx_ntests + 1
    /\ sx_test' = test
    /\ IF DATABASE_ENGINE = "mysql"
       THEN LET r == sphinx_start(test)
            IN  /\ sx_log' = r.log
                /\ sx_raised' = r.exc
                /\ sx_pc' = IF r.exc = "none" THEN "body" ELSE "after"
                /\ IF r.launch
                   THEN \E status \in {"running", "exited 0", "exited 1"} :
                           /\ procs' = Append(procs, status)
                           /\ _searchd' = Len(procs) + 1
                   ELSE UNCHANGED <<_searchd, procs>>
       ELSE /\ sx_log' = << >>
            /\ sx_raised' = "none"
            /\ sx_pc' = "body"
            /\ UNCHANGED <<_searchd, procs>>
    /\ UNCHANGED <<sphinx_config_tpl, tmp_sphinx_dir, tmp_dir_on_disk,
                   lifecycle_vars,
                   selenium_vars>>

\* A running searchd exits by itself.
searchd_exits(i, status) ==
    /\ i \in 1..Len(procs)
    /\ procs[i] = "running"
    /\ procs' = [procs EXCEPT ![i] = status]
    /\ UNCHANGED <<sx_pc, sx_ntests, sx_test, sx_raised, sx_log,
                   sphinx_config_tpl, tmp_sphinx_dir, tmp_dir_on_disk,
                   _searchd, lifecycle_vars,
                   selenium_vars>>

\* The body of the test ends.
sphinx_bodyEnd ==
    /\ sx_pc = "body"
    /\ sx_pc' = "after"
    /\ UNCHANGED <<sx_ntests, sx_test, sx_raised, sx_log, sphinx_config_tpl,
                   tmp_sphinx_dir, tmp_dir_on_disk, _searchd, procs,
                   lifecycle_vars,
                   selenium_vars>>

\* DjangoSphinxPlugin._stop_searchd: poll() is None for a running process and
\* the exit status otherwise (-9 once killed), and `not` holds of None and of
\* 0; os.kill of a process that is gone raises OSError.
_stop_searchd ==
    IF _searchd = 0
    THEN sx_raised' = "AttributeError" /\ UNCHANGED procs
    ELSE IF procs[_searchd] = "running"
    THEN sx_raised' = "none" /\ procs' = [procs EXCEPT ![_searchd] = "killed"]
    ELSE IF procs[_searchd] = "exited 0"
    THEN sx_raised' = "OSError" /\ UNCHANGED procs
    ELSE sx_raised' = "none" /\ UNCHANGED procs

\* DjangoSphinxPlugin.afterTest(test).
sphinx_afterTest ==
    /\ sx_pc = "after"
    /\ sx_pc' = "idle"
    /\ IF DATABASE_ENGINE = "mysql" /\ sx_test.context_run_sphinx_searchd
       THEN _stop_searchd
       ELSE sx_raised' = "none" /\ UNCHANGED procs
    /\ UNCHANGED <<sx_ntests, sx_test, sx_log, sphinx_config_tpl,
                   tmp_sphinx_dir, tmp_dir_on_disk, _searchd, lifecycle_vars,
                   selenium_vars>>

\* The temporary directory is removed by something other than the plugin.
tmp_dir_removed ==
    /\ sx_pc = "idle"
    /\ tmp_dir_on_disk
    /\ tmp_dir_on_disk' = FALSE
    /\ UNCHANGED <<sx_pc, sx_ntests, sx_test, sx_raised, sx_log,
                   sphinx_config_tpl, tmp_sphinx_dir, _searchd, procs,
                   lifecycle_vars,
                   selenium_vars>>

\* DjangoSphinxPlugin.finalize: rmtree with ignore_errors of the directory
\* configure made; it reads self.tmp_sphinx_dir.
sphinx_finalize ==
    /\ sx_pc = "idle"
    /\ sx_pc' = "finalized"
    /\ IF tmp_sphinx_dir = Absent
       THEN sx_raised' = "AttributeError" /\ UNCHANGED tmp_dir_on_disk
       ELSE sx_raised' = "none" /\ tmp_dir_on_disk' = FALSE
    /\ UNCHANGED <<sx_ntests, sx_test, sx_log, sphinx_config_tpl,
                   tmp_sphinx_dir, _searchd, procs, lifecycle_vars,
                   selenium_vars>>

\* A run of DjangoSphinxPlugin against a database of either engine.
InitSphinx ==
    /\ InitPlugins
    /\ SphinxUnconfigured
    /\ DISABLE_TRANSACTION_MANAGEMENT = Absent
    /\ DATABASE_SUPPORTS_TRANSACTIONS = Absent
    /\ importable = TRUE
    /\ getcwd = "/p/q"
    /\ listing = {}
    /\ _use_sqlite = FALSE
    /\ DATABASE_ENGINE \in {"mysql", "postgresql"}
    /\ DATABASE_NAME = ProjectDb
    /\ ss_dir_exists = FALSE

NextSphinx ==
    \/ \E tpl \in {Absent, "sphinx.conf.tpl"} : sphinx_configure(tpl)
    \/ \E test \in SphinxTests :
           sx_ntests < MaxSphinxTests /\ sphinx_startTest(test)
    \/ \E i \in 1..MaxSphinxTests, status \in {"exited 0", "exited 1"} :
           searchd_exits(i, status)
    \/ sphinx_bodyEnd
    \/ sphinx_afterTest
    \/ tmp_dir_removed
    \/ sphinx_finalize

SpecSphinx == InitSphinx /\ [][NextSphinx]_vars

\* -------------------------------------------------------- SeleniumPlugin
\* SeleniumPlugin.configure(options, config): the directory given, or
\* failure_screenshots.
selenium_configure(option) ==
    /\ se_pc = "unconfigured"
    /\ se_pc' = "idle"
    /\ ss_dir' = IF option # Absent THEN option ELSE "failure_screenshots"
    /\ UNCHANGED <<se_ntests, se_test, se_outcome, se_hook, se_raised,
                   ss_dir_exists, ss_files, makedirs_calls, printed,
                   screenshot_calls, se_before, lifecycle_vars, sphinx_vars>>

\* The runner runs a test; its body passes, errors or fails.
selenium_runTest(test, result) ==
    /\ se_pc = "idle"
    /\ se_ntests' = se_ntests + 1
    /\ se_test' = test
    /\ se_outcome' = result
    /\ se_hook' = "none"
    /\ se_raised' = "none"
    /\ se_before' = Screen
    /\ se_pc' = IF result = "pass" THEN "after" ELSE "failed"
    /\ UNCHANGED <<ss_dir, ss_dir_exists, ss_files, makedirs_calls, printed,
                   screenshot_calls, lifecycle_vars, sphinx_vars>>

\* _take_screenshot creating the directory before it looks the driver up.
_take_screenshot_makedirs_first(w, test, id) ==
    LET driver_attr == IF test.selenium_driver_attr # Absent
                       THEN test.selenium_driver_attr ELSE "driver"
        called == [w EXCEPT !.screenshot_calls = @ + 1]
        made == IF called.ss_dir_exists THEN called
                ELSE [called EXCEPT !.ss_dir_exists = TRUE,
                                    !.makedirs_calls = @ + 1]
    IN  IF driver_attr \notin test.attrs
        THEN [made EXCEPT !.printed = @ + 1]
        ELSE [made EXCEPT !.ss_files = @ \cup {id}]

\* SeleniumPlugin._take_screenshot(test) on the record w; id is test.id().
\* The AttributeError of the driver lookup is caught: a message is printed
\* and the function returns.
_take_screenshot(w, test, id) ==
    LET driver_attr == IF test.selenium_driver_attr # Absent
                       THEN test.selenium_driver_attr ELSE "driver"
        called == [w EXCEPT !.screenshot_calls = @ + 1]
    IN  IF driver_attr \notin test.attrs
        THEN [called EXCEPT !.printed = @ + 1]
        ELSE LET made == IF called.ss_dir_exists THEN called
                         ELSE [called EXCEPT !.ss_dir_exists = TRUE,
                                             !.makedirs_calls = @ + 1]
             IN  [made EXCEPT !.ss_files = @ \cup {id}]

\* The record written back.
StoreScreen(w) ==
    /\ ss_dir_exists' = w.ss_dir_exists
    /\ ss_files' = w.ss_files
    /\ makedirs_calls' = w.makedirs_calls
    /\ printed' = w.printed
    /\ screenshot_calls' = w.screenshot_calls

\* SeleniumPlugin.handleError(test, err).
handleError ==
    /\ se_pc = "failed"
    /\ se_outcome = "error"
    /\ se_pc' = "handled"
    /\ se_hook' = "handleError"
    /\ se_raised' = "none"
    /\ IF se_test.is_test /\ se_test.selenium_take_ss
       THEN StoreScreen(_take_screenshot(Screen, se_test, se_ntests))
       ELSE StoreScreen(Screen)
    /\ UNCHANGED <<se_ntests, se_test, se_outcome, ss_dir, se_before,
                   lifecycle_vars, sphinx_vars>>

\* SeleniumPlugin.handleFailure(test, err).
handleFailure ==
    /\ se_pc = "failed"
    /\ se_outcome = "failure"
    /\ se_pc' = "handled"
    /\ se_hook' = "handleFailure"
    /\ se_raised' = "none"
    /\ IF se_test.is_test /\ se_test.selenium_take_ss
       THEN StoreScreen(_take_screenshot(Screen, se_test, se_ntests))
       ELSE StoreScreen(Screen)
    /\ UNCHANGED <<se_ntests, se_test, se_outcome, ss_dir, se_before,
                   lifecycle_vars, sphinx_vars>>

\* SeleniumPlugin.afterTest(test): driver_attr is not a name afterTest or the
\* module defines, so the lookup raises NameError.
selenium_afterTest ==
    /\ se_pc \in {"after", "handled"}
    /\ se_pc' = "idle"
    /\ se_raised' = IF se_test.selenium THEN "NameError" ELSE "none"
    /\ UNCHANGED <<se_ntests, se_test, se_outcome, se_hook, ss_dir,
                   ss_dir_exists, ss_files, makedirs_calls, printed,
                   screenshot_calls, se_before, lifecycle_vars, sphinx_vars>>

\* A run of SeleniumPlugin; the screenshot directory is there or not.
InitSelenium ==
    /\ InitPlugins
    /\ SphinxUnconfigured
    /\ DISABLE_TRANSACTION_MANAGEMENT = Absent
    /\ DATABASE_SUPPORTS_TRANSACTIONS = Absent
    /\ importable = TRUE
    /\ getcwd = "/p/q"
    /\ listing = {}
    /\ _use_sqlite = FALSE
    /\ DATABASE_ENGINE = "mysql"
    /\ DATABASE_NAME = ProjectDb
    /\ ss_dir_exists \in BOOLEAN

NextSelenium ==
    \/ \E option \in {Absent, "/shots"} : selenium_configure(option)
    \/ \E test \in SeleniumTests, result \in {"pass", "error", "failure"} :
           se_ntests < MaxSeleniumTests /\ selenium_runTest(test, result)
    \/ handleError
    \/ handleFailure
    \/ selenium_afterTest

SpecSelenium == InitSelenium /\ [][NextSelenium]_vars

\* ---------------------------------------------------------------- claims
\* beforeTest has returned or raised and nothing has run since.
AfterBeforeTest == pc = "start" \/ (pc = "after" /\ outcome = "none")

\* The positions of the calls of `op` in the log of the current test.
Calls(op) == {i \in 1..Len(log) : log[i].op = op}

\* C1: once afterTest of a test has completed, the six transaction entry
\* points are bound to what they were bound to just before that test's
\* beforeTest, whatever the outcome of the test and whether or not it was run
\* transactionally.
C1_BindingsRestored ==
    pc = "cleaned" => bound = pre_bound

\* A transactional test whose body errored has been cleaned up.
C1_Witness ==
    /\ pc = "cleaned"
    /\ _managing_transactions = "True"
    /\ outcome = "error"
    /\ Calls("restore_transaction_support") # {}

\* C2: for a test A that was run transactionally, the committed database
\* contents stay what they were before A's beforeTest all through A's body
\* (writes followed by commit or savepoint_commit included), and after A's
\* afterTest the connection sees exactly those contents again.
C2_TransactionalWritesRolledBack ==
    _managing_transactions = "True" =>
        /\ pc \in {"start", "body", "after", "cleaned"} =>
               committed = pre_committed
        /\ pc = "cleaned" => db = pre_committed

\* A transactional test whose body wrote a row and made another call has been
\* cleaned up.
C2_Witness ==
    /\ pc = "cleaned"
    /\ _managing_transactions = "True"
    /\ written # {}
    /\ nops = MaxBodyOps

\* C3: for a test for which _supports_transactions returned False, beforeTest
\* ran flush exactly once, as its first call and so before any loaddata, and
\* the body starts from the flushed database plus the rows of the fixtures
\* beforeTest loaded for it, which are fixtures of its own.
C3_FlushBeforeNonTransactionalTest ==
    (pc = "start" /\ _managing_transactions = "False") =>
        /\ Calls("flush") = {1}
        /\ \A i \in Calls("loaddata") :
               /\ i > 1
               /\ RowsOf(log[i].args) \subseteq RowsOf(cur.fixtures)
        /\ db = UNION {RowsOf(log[i].args) : i \in Calls("loaddata")}
        /\ committed = db

\* A second non-transactional test starts although the test before it left
\* committed rows.
C3_Witness ==
    /\ pc = "start"
    /\ _managing_transactions = "False"
    /\ ntests = 2
    /\ pre_committed # {}

\* C4 (as claimed): the decision is False exactly when use_transaction is
\* False, or DISABLE_TRANSACTION_MANAGEMENT is True, or
\* DATABASE_SUPPORTS_TRANSACTIONS is False.
C4_EachSignalVetoes ==
    pc \in {"start", "body", "after", "cleaned"} =>
        ((_managing_transactions = "False") <=>
            \/ cur.use_transaction = "False"
            \/ DISABLE_TRANSACTION_MANAGEMENT = "True"
            \/ DATABASE_SUPPORTS_TRANSACTIONS = "False")

\* C5: whenever a test's beforeTest begins, settings.ROOT_URLCONF is the value
\* it had when the run began.
C5_UrlconfAtBeforeTest ==
    /\ pre_urlconf = ProjectUrls
    /\ pc = "idle" => ROOT_URLCONF = ProjectUrls

\* A test began after an earlier test of the run had declared a urls override.
C5_Witness ==
    /\ pc \in {"start", "after"}
    /\ ntests = 2
    /\ pre_old_urlconf # Absent

\* C6 (as claimed): for a method test whose context declares urls, beforeTest
\* does not raise, and when the body starts ROOT_URLCONF is the declared value
\* and the last thing beforeTest did was to clear the URL caches.
C6_UrlsOverrideInstalled ==
    (AfterBeforeTest /\ cur.method /\ cur.urls # Absent) =>
        /\ raised = "none"
        /\ pc = "start"
        /\ ROOT_URLCONF = cur.urls
        /\ Len(log) > 0
        /\ log[Len(log)].op = "clear_url_caches"

\* C7 (as claimed): NoseDjango.finalize does not raise, leaves ROOT_URLCONF at
\* the URL root configured before the first override, and when a test had
\* declared an override it clears the URL caches after reverting.
C7_FinalizeRevertsUrlconf ==
    "django" \in finalized =>
        /\ raised = "none"
        /\ ROOT_URLCONF = ProjectUrls
        /\ old_urlconf # Absent => Calls("clear_url_caches") # {}

\* C8 (as claimed): for every test that exposes a fixtures attribute, when the
\* body starts beforeTest has made one loaddata call, with the declared
\* fixtures in the declared order and verbosity 0, after the transaction or
\* flush part.
C8_FixturesOfEveryTest ==
    (pc = "start" /\ cur.has_fixtures) =>
        /\ Cardinality(Calls("loaddata")) = 1
        /\ \A i \in Calls("loaddata") :
               /\ log[i].args = cur.fixtures
               /\ log[i].kwargs = <<"verbosity=0">>
               /\ \E j \in Calls("flush") \cup Calls("disable_transaction_support") :
                      j < i
        /\ RowsOf(cur.fixtures) \subseteq db

\* C8 (amended): the same for a method test whose context declares fixtures;
\* for a test of any other kind beforeTest loads no fixture.
C8_FixturesOfMethodTest ==
    pc = "start" =>
        IF cur.method /\ cur.has_fixtures
        THEN /\ Cardinality(Calls("loaddata")) = 1
             /\ \A i \in Calls("loaddata") :
                    /\ log[i].args = cur.fixtures
                    /\ log[i].kwargs = <<"verbosity=0">>
                    /\ \E j \in Calls("flush")
                                  \cup Calls("disable_transaction_support") :
                           j < i
             /\ RowsOf(cur.fixtures) \subseteq db
        ELSE Calls("loaddata") = {}

\* The body of a method test that declares two fixtures is about to start.
C8_Witness ==
    /\ pc = "start"
    /\ cur.method
    /\ cur.fixtures = <<"b", "a">>

\* C9 (as claimed): for a test run transactionally that declares fixtures, the
\* fixture rows are present when the body starts, and after its afterTest no
\* fixture row that was not committed before the test is left.
C9_FixturesOfEveryTransactionalTest ==
    (_managing_transactions = "True" /\ cur.has_fixtures) =>
        /\ pc = "start" => RowsOf(cur.fixtures) \subseteq db
        /\ pc = "cleaned" =>
               (RowsOf(cur.fixtures) \ pre_committed) \cap (db \cup committed) = {}

\* C9 (amended): the same for a method test; its loaddata call comes after
\* disable_transaction_support, so the commit the loader calls is _dummy, and
\* afterTest leaves the committed rows as they were before the test.
C9_FixturesInsideSandbox ==
    (_managing_transactions = "True" /\ cur.method /\ cur.has_fixtures) =>
        /\ pc = "start" =>
               /\ RowsOf(cur.fixtures) \subseteq db
               /\ committed = pre_committed
               /\ \A i \in Calls("loaddata") :
                      \E j \in Calls("disable_transaction_support") : j < i
               /\ \A i \in Calls("commit") : ~log[i].real
        /\ pc = "cleaned" =>
               /\ committed = pre_committed
               /\ db = pre_committed

\* A transactional method test whose fixtures were not in the database before
\* it has been cleaned up.
C9_Witness ==
    /\ pc = "cleaned"
    /\ _managing_transactions = "True"
    /\ cur.method
    /\ cur.has_fixtures
    /\ RowsOf(cur.fixtures) \cap pre_committed = {}
    /\ Calls("loaddata") # {}
    /\ Calls("rollback") # {}

\* C10: start_server is invoked at most once in a run, for the first test
\* whose startTest sees start_live_server, and at most one server listens.
C10_OneLiveServer ==
    /\ start_server_calls <= 1
    /\ listening <= 1
    /\ first_requester # 0 => (start_server_calls = 1 /\ started_for = first_requester)
    /\ first_requester = 0 => start_server_calls = 0

\* A later test that requests the live server runs after the server was started
\* for an earlier one.
C10_Witness ==
    /\ pc = "body"
    /\ cur.start_live_server
    /\ first_requester # 0
    /\ ntests > first_requester

\* C11: DjangoSphinxPlugin.finalize does not raise when no temporary directory
\* was ever created: the plugin was configured without a configuration
\* template, or the directory does not exist on disk.
C11_FinalizeDoesNotRaise ==
    sx_pc = "finalized" => sx_raised = "none"

\* The directories from d up to and including the root.
RECURSIVE PathUp(_)
PathUp(d) == IF split_head[d] = d THEN {d} ELSE {d} \cup PathUp(split_head[d])

\* C12: when the settings module cannot be imported and no directory from the
\* working directory upward holds the settings file, begin raises RuntimeError
\* before the test environment is set up, before the test database is created
\* and before any beforeTest; and whenever a test has run, a settings module
\* was located.
C12_NoSettingsAborts ==
    /\ (pc # "configured" /\ ~importable /\ PathUp(getcwd) \cap listing = {})
           => /\ pc = "aborted"
              /\ raised = "RuntimeError"
              /\ ~test_environment
              /\ test_db = "none"
              /\ ntests = 0
    /\ ntests > 0 => settings_path # Absent

\* begin has raised in a project whose settings file is in a directory that
\* is not above the working directory.
C12_Witness ==
    /\ pc = "aborted"
    /\ raised = "RuntimeError"
    /\ ~importable
    /\ listing # {}
    /\ PathUp(getcwd) \cap listing = {}

\* C13: finalize destroys the test database passing the name begin captured,
\* and the captured name is the name configured when the test database was
\* created, after the in-memory override if there is one; no per-test hook
\* changes the captured name.
C13_CapturedNameDestroyed ==
    /\ test_db # "none"
           => /\ old_db = name_at_create
              /\ old_db = (IF _use_sqlite THEN "" ELSE ProjectDb)
    /\ test_db = "destroyed" => destroyed_name = old_db

\* finalize has destroyed the in-memory database after a test ran.
C13_Witness ==
    /\ test_db = "destroyed"
    /\ _use_sqlite
    /\ ntests > 0
    /\ destroyed_name = ""

\* The names of the calls a step appended to the log, in order.
Appended == [i \in 1..(Len(log') - Len(log)) |-> log'[Len(log) + i].op]

\* C14: afterTest of a test that was run transactionally restores the six
\* bindings, then calls rollback (the real one), then leaves transaction
\* management only if the connection is still marked managed, then closes the
\* connection; afterTest of a test that was not run transactionally performs
\* none of restore, rollback, leave and close.
C14_AfterTestOrder ==
    [][(pc = "after" /\ pc' = "cleaned") =>
          IF _managing_transactions = "True"
          THEN /\ bound' = [n \in EntryPoints |-> Original]
               /\ log'[Len(log) + 2].real
               /\ db' = committed /\ committed' = committed
               /\ connection_closes' = connection_closes + 1
               /\ IF is_managed(state)
                  THEN /\ Appended = <<"restore_transaction_support",
                                       "rollback",
                                       "leave_transaction_management", "close">>
                       /\ log'[Len(log) + 3].real
                       /\ state' = Pop(state)
                  ELSE /\ Appended = <<"restore_transaction_support",
                                       "rollback", "close">>
                       /\ state' = state
          ELSE /\ log' = log
               /\ UNCHANGED <<bound, state, db, committed, connection_closes>>
      ]_vars

\* A transactional test whose body unmarked the transaction as managed has
\* been cleaned up without leaving transaction management.
C14_Witness ==
    /\ pc = "cleaned"
    /\ _managing_transactions = "True"
    /\ Calls("rollback") # {}
    /\ Calls("leave_transaction_management") = {}
    /\ Calls("close") # {}

\* C15: for a transactional test beforeTest calls the real
\* enter_transaction_management and marks the transaction managed before it
\* replaces the six entry points, and from the end of beforeTest until
\* afterTest all six are the no-op, so that no call of any of them changes the
\* transaction state; for a non-transactional test the six keep their
\* original bindings throughout.
C15_SandboxSealed ==
    pc \in {"start", "body", "after"} =>
        /\ _managing_transactions = "True" =>
              /\ Len(log) >= 3
              /\ log[1].op = "enter_transaction_management" /\ log[1].real
              /\ log[2].op = "managed" /\ log[2].args = <<"True">>
              /\ log[3].op = "disable_transaction_support"
              /\ bound = [n \in EntryPoints |-> _dummy]
              /\ \A n \in EntryPoints :
                     LET w == Call(World, n)
                     IN  /\ w.state = state /\ w.db = db
                         /\ w.committed = committed /\ w.exc = "none"
        /\ _managing_transactions = "False" =>
              bound = [n \in EntryPoints |-> Original]

\* The body of a transactional test has made as many transaction calls as it
\* may, after writing nothing, and the transaction is as beforeTest left it.
C15_Witness ==
    /\ pc = "body"
    /\ _managing_transactions = "True"
    /\ nops = MaxBodyOps
    /\ written = {}
    /\ state = <<TRUE>>

\* The current test entered transaction management in its beforeTest; it was
\* flushed in its beforeTest.
Transactional == Calls("enter_transaction_management") # {}
Flushed == Calls("flush") # {}

\* C16: each test takes exactly one of the paths Transactional and Flushed,
\* chosen once in its beforeTest, and the cleanup its afterTest performs
\* matches that path: rollback cleanup if and only if this test entered
\* transaction management, whatever was decided for an earlier test.
C16_OnePathPerTest ==
    /\ pc \in {"start", "body", "after", "cleaned"} =>
          /\ Transactional # Flushed
          /\ Cardinality(Calls("enter_transaction_management")
                         \cup Calls("flush")) = 1
          /\ Transactional <=>
                 _supports_transactions(cur.use_transaction,
                                        DISABLE_TRANSACTION_MANAGEMENT,
                                        DATABASE_SUPPORTS_TRANSACTIONS)
          /\ _managing_transactions = (IF Transactional THEN "True" ELSE "False")
    /\ pc \in {"start", "body", "after"} =>
          /\ Calls("restore_transaction_support") = {}
          /\ Calls("rollback") = {}
          /\ Calls("close") = {}
    /\ pc = "cleaned" =>
          /\ Cardinality(Calls("restore_transaction_support")) =
                 (IF Transactional THEN 1 ELSE 0)
          /\ Cardinality(Calls("rollback")) = (IF Transactional THEN 1 ELSE 0)
          /\ Cardinality(Calls("close")) = (IF Transactional THEN 1 ELSE 0)

\* A flushed test that followed a transactional one has been cleaned up.
C16_Witness ==
    /\ pc = "cleaned"
    /\ ntests = 2
    /\ Flushed
    /\ orig["commit"] = Original
    /\ Calls("rollback") = {}

\* The deepest directory from cwd up to and including the root that is among
\* `holding`, or Absent when there is none.
Deepest(cwd, holding) ==
    LET P == PathUp(cwd) \cap holding
    IN  IF P = {} THEN Absent ELSE CHOOSE d \in P : P \subseteq PathUp(d)

\* C17: get_settings_path terminates for every working directory, and returns
\* the deepest directory on the path from the working directory up to and
\* including the file system root that holds the settings file, and None
\* exactly when no directory on that path holds it.
C17_DeepestDirectoryOnPath ==
    (pc # "configured" /\ ~importable) =>
        settings_path = Deepest(getcwd, listing)

\* C18: with a mysql database, for a test that requests index building, a
\* running search daemon, or both, startTest renders the configuration file
\* before it invokes the indexer or launches the daemon; a test that requests
\* index building alone gets a rendered configuration and an indexer run, and
\* startTest does not raise. (The plugin was given a template, and its
\* temporary directory is there.)
C18_ConfigRenderedFirst ==
    (/\ sx_pc \in {"body", "after"}
     /\ DATABASE_ENGINE = "mysql"
     /\ sphinx_config_tpl # Absent
     /\ tmp_dir_on_disk
     /\ sx_test.build_sphinx_index \/ sx_test.run_sphinx_searchd)
        => /\ sx_raised = "none"
           /\ Len(sx_log) > 0
           /\ sx_log[1] = "render"
           /\ sx_test.build_sphinx_index
                  => \E i \in 1..Len(sx_log) : sx_log[i] = "indexer"
           /\ sx_test.run_sphinx_searchd
                  => \E i \in 1..Len(sx_log) : sx_log[i] = "searchd"

\* C19: every search daemon launched by startTest is terminated by the end
\* of that test's afterTest or, at the latest, by finalize: after finalize no
\* daemon started by the plugin is still running, however the test declares
\* the request.
C19_NoDaemonAfterFinalize ==
    sx_pc = "finalized" => \A i \in 1..Len(procs) : procs[i] # "running"

\* C20: CherryPyLiveServerPlugin.finalize stops the live server exactly once
\* if a server was started during the run and performs no stop if none was;
\* after finalize the plugin records no server as started, and a second
\* finalize does not stop anything again.
C20_StoppedOnceAtFinalize ==
    /\ live_finalizes = 0 => stop_calls = 0
    /\ live_finalizes >= 1 =>
          /\ stop_calls = (IF start_server_calls > 0 THEN 1 ELSE 0)
          /\ ~server_started
          /\ listening = 0

\* finalize has run twice after a run that started the server.
C20_Witness ==
    /\ live_finalizes = 2
    /\ start_server_calls = 1
    /\ stop_calls = 1

\* The attribute _take_screenshot looks the driver up in.
DriverAttr(test) ==
    IF test.selenium_driver_attr # Absent THEN test.selenium_driver_attr
    ELSE "driver"

\* C21: on a test error or failure SeleniumPlugin attempts a screenshot if and
\* only if the test opted in (selenium_take_ss on its context); when the test
\* object lacks the attribute that should hold the driver, the lookup failure
\* is caught, reported and not propagated, and no screenshot directory or file
\* is created; handleError and handleFailure behave identically.
C21_ScreenshotIffOptedIn ==
    se_pc = "handled" =>
        /\ se_raised = "none"
        /\ screenshot_calls = se_before.screenshot_calls +
               (IF se_test.selenium_take_ss THEN 1 ELSE 0)
        /\ (se_test.selenium_take_ss
               /\ DriverAttr(se_test) \notin se_test.attrs)
              => /\ printed = se_before.printed + 1
                 /\ ss_dir_exists = se_before.ss_dir_exists
                 /\ makedirs_calls = se_before.makedirs_calls
                 /\ ss_files = se_before.ss_files

\* C21, amended: the same for a test that is a nose.case.Test, which attempts
\* a screenshot if and only if it opted in; for any other object the two
\* handlers do nothing, opted in or not.
C21_ScreenshotOnOptIn ==
    se_pc = "handled" =>
        /\ se_raised = "none"
        /\ se_test.is_test =>
              /\ screenshot_calls = se_before.screenshot_calls +
                     (IF se_test.selenium_take_ss THEN 1 ELSE 0)
              /\ (se_test.selenium_take_ss
                     /\ DriverAttr(se_test) \notin se_test.attrs)
                    => /\ printed = se_before.printed + 1
                       /\ ss_dir_exists = se_before.ss_dir_exists
                       /\ makedirs_calls = se_before.makedirs_calls
                       /\ ss_files = se_before.ss_files
              /\ (se_test.selenium_take_ss
                     /\ DriverAttr(se_test) \in se_test.attrs)
                    => /\ printed = se_before.printed
                       /\ ss_dir_exists
                       /\ ss_files = se_before.ss_files \cup {se_ntests}
              /\ ~se_test.selenium_take_ss => Screen = se_before
        /\ ~se_test.is_test => Screen = se_before

\* handleFailure has swallowed the lookup failure of a test that opted in and
\* keeps its driver elsewhere, with no screenshot directory on disk.
C21_Witness ==
    /\ se_pc = "handled"
    /\ se_hook = "handleFailure"
    /\ se_test.is_test /\ se_test.selenium_take_ss
    /\ se_test.selenium_driver_attr = "browser"
    /\ se_test.attrs = {"driver"}
    /\ ~ss_dir_exists
    /\ printed > 0

\* C22: transaction-management nesting is balanced per test: for every
\* transactional test, whatever calls its body makes to
\* enter_transaction_management, leave_transaction_management or managed,
\* after afterTest the transaction-management depth of the connection equals
\* the depth it had before that test's beforeTest, so that over a sequence of
\* tests the depth never grows.
C22_DepthBalanced ==
    (pc = "cleaned" /\ _managing_transactions = "True")
        => Len(state) = pre_depth

====
